---- MODULE Spec2Model ----
(***************************************************************************)
(* Bank lending ledger: the two back ends of the repository.               *)
(*   - backend/server.js   over backend/database.js (SQLite, one shared    *)
(*     connection `db`, callbacks)                                         *)
(*   - the PostgreSQL port of server.js over the pg Pool of database.js    *)
(*     (every db.query is pool.query: its own client checkout)             *)
(* Requests are asynchronous handlers; one action is one callback or one   *)
(* awaited storage call of a handler.  The relational store is modelled as *)
(* committed rows plus, per connection, the uncommitted writes of its open *)
(* transaction.                                                            *)
(*                                                                         *)
(* Numbers: JavaScript doubles are modelled by exact integers; the model's *)
(* inputs are chosen so that P*Y*R is a multiple of 100.  monthly_emi is   *)
(* kept as the exact fraction total/(years*12).                            *)
(***************************************************************************)
EXTENDS Integers, Sequences, FiniteSets, TLC

VARIABLES
    backend,    \* "sqlite" | "pg": which server.js is running
    up,         \* the Node process is alive
    db,         \* committed rows: [cust, loans, pays]
    conns,      \* per connection: open transaction, its writes, its row locks
    idle,       \* pg Pool: stack of idle clients (last released on top)
    clients,    \* pg Pool: the clients it holds (idle or checked out)
    req,        \* per request: handler position, inputs, locals, response
    faults      \* storage failures the environment may still inject

vars == <<backend, up, db, conns, idle, clients, req, faults>>

(***************************************************************************)
(* Bounds                                                                  *)
(***************************************************************************)
MaxReqs == 3        \* requests per behaviour (each also names the id it generates)
MaxClients == 2     \* pg Pool size explored
MaxFaults == 1      \* injected storage failures per behaviour
MaxPays == 2        \* Payment rows of a store that is only read
MaxDate == 2        \* distinct payment_date values of such a store

Reqs == 1..MaxReqs
Conns == 1..MaxClients

(***************************************************************************)
(* Rows.  A generated uuid is modelled by the number of the request that   *)
(* generates it (loan_id, payment_id).                                     *)
(***************************************************************************)
NoRow == [loan_id |-> 0, customer_id |-> "", principal_amount |-> 0, total_amount |-> 0,
          interest_rate |-> 0, loan_period_years |-> 0,
          monthly_emi |-> [n |-> 0, d |-> 1], status |-> ""]

NoBody == [customer_id |-> "", loan_amount |-> 0, loan_period_years |-> 0,
           interest_rate_yearly |-> 0, loan_id |-> 0, amount |-> 0,
           payment_type |-> "", miss |-> {}]

EmptyDb == [cust |-> {}, loans |-> << >>, pays |-> << >>]

CleanConn == [txn |-> "no", pend |-> << >>, held |-> {}]

NoReq == [op |-> "none", pc |-> "idle", cl |-> 0, body |-> NoBody, loan |-> NoRow,
          rem |-> 0, newStatus |-> "", emis |-> 0, code |-> 0, calls |-> 0, errs |-> {},
          rows |-> << >>, entries |-> << >>, out |-> << >>]

(***************************************************************************)
(* Arithmetic                                                              *)
(***************************************************************************)
\* Math.ceil(a / (n/d)) for a >= 0, n > 0, d > 0
CeilDiv(a, b) == IF a % b = 0 THEN a \div b ELSE (a \div b) + 1

Max(a, b) == IF a >= b THEN a ELSE b

RECURSIVE SumAmounts(_)
SumAmounts(rows) ==
    IF rows = << >> THEN 0 ELSE Head(rows).amount + SumAmounts(Tail(rows))

\* principal * years * (rate / 100)
Interest(principal, years, rate) == (principal * years * rate) \div 100

calculateLoanDetails(principal, years, rate) ==
    LET interest == Interest(principal, years, rate)
        totalAmount == principal + interest
    IN  [totalAmount |-> totalAmount,
         monthlyEmi |-> [n |-> totalAmount, d |-> years * 12],
         interest |-> interest]

(***************************************************************************)
(* The relational store                                                    *)
(***************************************************************************)
PaysOf(d, l) == SelectSeq(d.pays, LAMBDA p : p.loan_id = l)

\* a store whose UPDATE of the status also rewrites the loan's total and
\* whose INSERT of a payment replaces the latest row
ApplyOpRewriting(d, op) ==
    CASE op.k = "cust" -> [d EXCEPT !.cust = d.cust \cup {op.cust}]
      [] op.k = "loan" ->
            [d EXCEPT !.loans = [l \in DOMAIN d.loans \cup {op.row.loan_id} |->
                                    IF l = op.row.loan_id THEN op.row ELSE d.loans[l]]]
      [] op.k = "pay" ->
            [d EXCEPT !.pays = IF d.pays = << >> THEN <<op.row>>
                               ELSE Append(SubSeq(d.pays, 1, Len(d.pays) - 1), op.row)]
      [] op.k = "status" ->
            IF op.loan \in DOMAIN d.loans
            THEN [d EXCEPT !.loans[op.loan].status = op.status,
                           !.loans[op.loan].total_amount = 0]
            ELSE d

ApplyOp(d, op) ==
    CASE op.k = "cust" -> [d EXCEPT !.cust = d.cust \cup {op.cust}]
      [] op.k = "loan" ->
            [d EXCEPT !.loans = [l \in DOMAIN d.loans \cup {op.row.loan_id} |->
                                    IF l = op.row.loan_id THEN op.row ELSE d.loans[l]]]
      [] op.k = "pay" -> [d EXCEPT !.pays = Append(d.pays, op.row)]
      [] op.k = "status" ->
            IF op.loan \in DOMAIN d.loans
            THEN [d EXCEPT !.loans[op.loan].status = op.status]
            ELSE d

RECURSIVE ApplyAll(_, _)
ApplyAll(d, ops) ==
    IF ops = << >> THEN d ELSE ApplyAll(ApplyOp(d, Head(ops)), Tail(ops))

InTxn(c) == conns[c].txn = "open"

\* what a statement run on connection c sees: committed rows and the writes
\* of the connection's own open transaction
View(c) == IF InTxn(c) THEN ApplyAll(db, conns[c].pend) ELSE db

\* a write statement on connection c: into the open transaction, or autocommitted
DbAfterWrite(c, op) == IF InTxn(c) THEN db ELSE ApplyOp(db, op)
ConnsAfterWrite(c, op) ==
    IF InTxn(c) THEN [conns EXCEPT ![c].pend = Append(@, op)] ELSE conns

DbAfterCommit(c) == IF InTxn(c) THEN ApplyAll(db, conns[c].pend) ELSE db
ConnsAfterEnd(c) == [conns EXCEPT ![c] = CleanConn]

\* the environment may make a storage call fail while it has failures left
FaultChoices == IF faults > 0 THEN {FALSE, TRUE} ELSE {FALSE}
FaultsAfter(f) == IF f THEN faults - 1 ELSE faults

Init ==
    /\ backend \in {"sqlite", "pg"}
    /\ up = TRUE
    /\ db = EmptyDb
    /\ conns = [c \in Conns |-> CleanConn]
    /\ idle = << >>
    /\ clients = {}
    /\ req = [r \in Reqs |-> NoReq]
    /\ faults = MaxFaults

(***************************************************************************)
(* Request validation (the same lines in both servers)                     *)
(***************************************************************************)
\* JavaScript !x : the field is absent, or is "" or 0
Falsy(b, f) == f \in b.miss \/ b[f] = (IF f \in {"customer_id", "payment_type"} THEN "" ELSE 0)

LendMissing(b) ==
    \/ Falsy(b, "customer_id")
    \/ Falsy(b, "loan_amount")
    \/ Falsy(b, "loan_period_years")
    \/ Falsy(b, "interest_rate_yearly")

LendInvalid(b) ==
    b.loan_amount <= 0 \/ b.loan_period_years <= 0 \/ b.interest_rate_yearly < 0

PayMissing(b) ==
    \/ Falsy(b, "amount")
    \/ Falsy(b, "payment_type")
    \/ (b.payment_type # "EMI" /\ b.payment_type # "LUMP_SUM")

\* a handler without the amount check, for comparison
PayInvalidNever(b) == FALSE

PayInvalid(b) == b.amount <= 0

NewLoanRow(r, b) ==
    LET d == calculateLoanDetails(b.loan_amount, b.loan_period_years, b.interest_rate_yearly)
    IN  [loan_id |-> r, customer_id |-> b.customer_id, principal_amount |-> b.loan_amount,
         total_amount |-> d.totalAmount, interest_rate |-> b.interest_rate_yearly,
         loan_period_years |-> b.loan_period_years, monthly_emi |-> d.monthlyEmi,
         status |-> "ACTIVE"]

\* the body of the 201
LendResponse(r, b) ==
    LET d == calculateLoanDetails(b.loan_amount, b.loan_period_years, b.interest_rate_yearly)
    IN  [loan_id |-> r, customer_id |-> b.customer_id, total_amount_payable |-> d.totalAmount,
         monthly_emi |-> d.monthlyEmi, total_interest |-> d.interest]

\* payment_date is stamped by the storage (DEFAULT CURRENT_TIMESTAMP, NOW()); the
\* rows one behaviour writes fall within one tick of that clock
NewPaymentRow(r, b) ==
    [payment_id |-> r, loan_id |-> b.loan_id, amount |-> b.amount,
     payment_type |-> b.payment_type, payment_date |-> 1]

\* the reconciliation of a payment of `amount` against a loan row and its payment rows
OriginalTotal(loan) ==
    loan.principal_amount
      + Interest(loan.principal_amount, loan.loan_period_years, loan.interest_rate)

\* a reconciliation that counts the instalments left of a LUMP_SUM payment from
\* the balance before the payment
ReconcileByType(loan, rows, amount, payment_type) ==
    LET amountPaidTillDate == SumAmounts(rows)
        balance == OriginalTotal(loan) - amountPaidTillDate - amount
        remainingBalance == IF balance <= 0 THEN 0 ELSE balance
        newStatus == IF balance <= 0 THEN "PAID_OFF" ELSE loan.status
        emisLeft == IF payment_type = "LUMP_SUM" /\ loan.monthly_emi.n > 0
                    THEN CeilDiv((remainingBalance + amount) * loan.monthly_emi.d,
                                 loan.monthly_emi.n)
                    ELSE IF loan.monthly_emi.n > 0
                    THEN CeilDiv(remainingBalance * loan.monthly_emi.d, loan.monthly_emi.n)
                    ELSE 0
    IN  [rem |-> remainingBalance, newStatus |-> newStatus, emis |-> emisLeft]

\* server.js branches on payment_type (LUMP_SUM, then any other type); the
\* PostgreSQL port has the single formula both branches compute
Reconcile(loan, rows, amount, payment_type) ==
    LET amountPaidTillDate == SumAmounts(rows)
        balance == OriginalTotal(loan) - amountPaidTillDate - amount
        remainingBalance == IF balance <= 0 THEN 0 ELSE balance
        newStatus == IF balance <= 0 THEN "PAID_OFF" ELSE loan.status
        emisLeft == IF payment_type = "LUMP_SUM" /\ loan.monthly_emi.n > 0
                    THEN CeilDiv(remainingBalance * loan.monthly_emi.d, loan.monthly_emi.n)
                    ELSE IF loan.monthly_emi.n > 0
                    THEN CeilDiv(remainingBalance * loan.monthly_emi.d, loan.monthly_emi.n)
                    ELSE 0
    IN  [rem |-> remainingBalance, newStatus |-> newStatus, emis |-> emisLeft]

\* the process dies: every connection closes, open transactions are lost
Down == [c \in Conns |-> CleanConn]

\* the process dies: a request in progress keeps the answer already sent to it,
\* or is never answered
Crashed(rq) ==
    [q \in Reqs |->
       IF rq[q].pc \in {"idle", "done"} THEN rq[q]
       ELSE [rq[q] EXCEPT !.pc = IF rq[q].code # 0 THEN "done" ELSE "hung", !.cl = 0]]

(***************************************************************************)
(* SQLite server: one connection, every statement a callback               *)
(***************************************************************************)
LiteConn == 1

LiteOn(r, op, pc) == backend = "sqlite" /\ up /\ req[r].op = op /\ req[r].pc = pc

\* bookkeeping of a request: a storage call it made, a storage call that failed
Called(q) == [q EXCEPT !.calls = @ + 1]
Erred(q, call) == [q EXCEPT !.errs = @ \cup {call}]

LiteLendStart(r, b) ==
    /\ backend = "sqlite" /\ up /\ req[r].op = "none"
    /\ req' = [req EXCEPT ![r] =
                 IF LendMissing(b) \/ LendInvalid(b)
                 THEN [NoReq EXCEPT !.op = "lend", !.body = b, !.pc = "done", !.code = 400]
                 ELSE [NoReq EXCEPT !.op = "lend", !.body = b, !.pc = "selcust"]]
    /\ UNCHANGED <<backend, up, db, conns, idle, clients, faults>>

LiteLendSelCust(r) ==
    /\ LiteOn(r, "lend", "selcust")
    /\ \E f \in FaultChoices :
         /\ faults' = FaultsAfter(f)
         /\ req' = [req EXCEPT ![r] = Called(
                      IF f THEN Erred([@ EXCEPT !.pc = "done", !.code = 500], "selcust")
                      ELSE IF req[r].body.customer_id \in View(LiteConn).cust
                           THEN [@ EXCEPT !.pc = "insloan"]
                           ELSE [@ EXCEPT !.pc = "inscust"])]
    /\ UNCHANGED <<backend, up, db, conns, idle, clients>>

\* the placeholder insert: its error is logged and loan creation goes on
LiteLendInsCust(r) ==
    /\ LiteOn(r, "lend", "inscust")
    /\ \E f \in FaultChoices :
         LET op == [k |-> "cust", cust |-> req[r].body.customer_id]
             err == f \/ req[r].body.customer_id \in View(LiteConn).cust
         IN  /\ faults' = FaultsAfter(f)
             /\ db' = IF err THEN db ELSE DbAfterWrite(LiteConn, op)
             /\ conns' = IF err THEN conns ELSE ConnsAfterWrite(LiteConn, op)
             /\ req' = [req EXCEPT ![r] = Called(
                          IF err THEN Erred([@ EXCEPT !.pc = "insloan"], "inscust")
                          ELSE [@ EXCEPT !.pc = "insloan"])]
    /\ UNCHANGED <<backend, up, idle, clients>>

LiteLendInsLoan(r) ==
    /\ LiteOn(r, "lend", "insloan")
    /\ \E f \in FaultChoices :
         LET row == NewLoanRow(r, req[r].body)
             op == [k |-> "loan", row |-> row]
         IN  /\ faults' = FaultsAfter(f)
             /\ db' = IF f THEN db ELSE DbAfterWrite(LiteConn, op)
             /\ conns' = IF f THEN conns ELSE ConnsAfterWrite(LiteConn, op)
             /\ req' = [req EXCEPT ![r] = Called(
                          IF f THEN Erred([@ EXCEPT !.pc = "done", !.code = 500], "insloan")
                          ELSE [@ EXCEPT !.pc = "done", !.code = 201, !.loan = row,
                                     !.out = LendResponse(r, req[r].body)])]
    /\ UNCHANGED <<backend, up, idle, clients>>

LitePayStart(r, b) ==
    /\ backend = "sqlite" /\ up /\ req[r].op = "none"
    /\ req' = [req EXCEPT ![r] =
                 IF PayMissing(b) \/ PayInvalid(b)
                 THEN [NoReq EXCEPT !.op = "pay", !.body = b, !.pc = "done", !.code = 400]
                 ELSE [NoReq EXCEPT !.op = "pay", !.body = b, !.pc = "selloan"]]
    /\ UNCHANGED <<backend, up, db, conns, idle, clients, faults>>

LitePaySelLoan(r) ==
    /\ LiteOn(r, "pay", "selloan")
    /\ \E f \in FaultChoices :
         LET v == View(LiteConn)
             l == req[r].body.loan_id
         IN  /\ faults' = FaultsAfter(f)
             /\ req' = [req EXCEPT ![r] = Called(
                          IF f THEN Erred([@ EXCEPT !.pc = "done", !.code = 500], "selloan")
                          ELSE IF l \notin DOMAIN v.loans
                               THEN [@ EXCEPT !.pc = "done", !.code = 404]
                          ELSE IF v.loans[l].status = "PAID_OFF"
                               THEN [@ EXCEPT !.pc = "done", !.code = 400]
                          ELSE [@ EXCEPT !.pc = "selpays", !.loan = v.loans[l]])]
    /\ UNCHANGED <<backend, up, db, conns, idle, clients>>

LitePaySelPays(r) ==
    /\ LiteOn(r, "pay", "selpays")
    /\ \E f \in FaultChoices :
         LET rows == PaysOf(View(LiteConn), req[r].body.loan_id)
             rc == Reconcile(req[r].loan, rows, req[r].body.amount, req[r].body.payment_type)
         IN  /\ faults' = FaultsAfter(f)
             /\ req' = [req EXCEPT ![r] = Called(
                          IF f THEN Erred([@ EXCEPT !.pc = "done", !.code = 500], "selpays")
                          ELSE [@ EXCEPT !.pc = "begin", !.rem = rc.rem,
                                         !.newStatus = rc.newStatus, !.emis = rc.emis])]
    /\ UNCHANGED <<backend, up, db, conns, idle, clients>>

\* An error of a db.run() that was given no callback (BEGIN, COMMIT, ROLLBACK)
\* is emitted as an 'error' event nobody listens to, which ends the process.
LiteUnheard(r, call, f) ==
    /\ up' = FALSE
    /\ faults' = FaultsAfter(f)
    /\ req' = Crashed([req EXCEPT ![r] = Called(Erred(@, call))])
    /\ conns' = Down
    /\ UNCHANGED <<backend, db, idle, clients>>

\* db.run('BEGIN TRANSACTION;'): fails inside a transaction already open
LitePayBegin(r) ==
    /\ LiteOn(r, "pay", "begin")
    /\ \E f \in FaultChoices :
         IF f \/ InTxn(LiteConn)
         THEN LiteUnheard(r, "begin", f)
         ELSE /\ conns' = [conns EXCEPT ![LiteConn].txn = "open"]
              /\ req' = [req EXCEPT ![r] = Called([@ EXCEPT !.pc = "insert"])]
              /\ UNCHANGED <<backend, up, db, idle, clients, faults>>

\* on error: db.run('ROLLBACK;') is queued and the 500 is sent at once
LitePayInsert(r) ==
    /\ LiteOn(r, "pay", "insert")
    /\ \E f \in FaultChoices :
         LET op == [k |-> "pay", row |-> NewPaymentRow(r, req[r].body)]
         IN  /\ faults' = FaultsAfter(f)
             /\ db' = IF f THEN db ELSE DbAfterWrite(LiteConn, op)
             /\ conns' = IF f THEN conns ELSE ConnsAfterWrite(LiteConn, op)
             /\ req' = [req EXCEPT ![r] = Called(
                          IF f THEN Erred([@ EXCEPT !.pc = "rollback", !.code = 500], "insert")
                          ELSE [@ EXCEPT !.pc = "update"])]
    /\ UNCHANGED <<backend, up, idle, clients>>

\* on success: db.run('COMMIT;') is queued and the 200 is sent at once
LitePayUpdate(r) ==
    /\ LiteOn(r, "pay", "update")
    /\ \E f \in FaultChoices :
         LET op == [k |-> "status", loan |-> req[r].body.loan_id,
                    status |-> req[r].newStatus]
         IN  /\ faults' = FaultsAfter(f)
             /\ db' = IF f THEN db ELSE DbAfterWrite(LiteConn, op)
             /\ conns' = IF f THEN conns ELSE ConnsAfterWrite(LiteConn, op)
             /\ req' = [req EXCEPT ![r] = Called(
                          IF f THEN Erred([@ EXCEPT !.pc = "rollback", !.code = 500], "update")
                          ELSE [@ EXCEPT !.pc = "commit", !.code = 200])]
    /\ UNCHANGED <<backend, up, idle, clients>>

\* db.run('COMMIT;'): fails when no transaction is open
LitePayCommit(r) ==
    /\ LiteOn(r, "pay", "commit")
    /\ \E f \in FaultChoices :
         IF f \/ ~InTxn(LiteConn)
         THEN LiteUnheard(r, "commit", f)
         ELSE /\ db' = DbAfterCommit(LiteConn)
              /\ conns' = ConnsAfterEnd(LiteConn)
              /\ req' = [req EXCEPT ![r] = Called([@ EXCEPT !.pc = "done"])]
              /\ UNCHANGED <<backend, up, idle, clients, faults>>

\* db.run('ROLLBACK;'): fails when no transaction is open
LitePayRollback(r) ==
    /\ LiteOn(r, "pay", "rollback")
    /\ \E f \in FaultChoices :
         IF f \/ ~InTxn(LiteConn)
         THEN LiteUnheard(r, "rollback", f)
         ELSE /\ conns' = ConnsAfterEnd(LiteConn)
              /\ req' = [req EXCEPT ![r] = Called([@ EXCEPT !.pc = "done"])]
              /\ UNCHANGED <<backend, up, db, idle, clients, faults>>

(***************************************************************************)
(* PostgreSQL server: db.query(text, params) is pool.query(text, params).  *)
(* Each call checks a client out of the pool (the idle client released     *)
(* last, else a new one while the pool is not full), runs the one          *)
(* statement on it and releases it; a client whose statement failed is     *)
(* released with the error, which removes it from the pool and closes its  *)
(* connection, rolling back the transaction open on it.  A transaction     *)
(* belongs to the client its BEGIN ran on.  Isolation is READ COMMITTED.   *)
(***************************************************************************)
\* row locks: "U" FOR UPDATE, "N" of an UPDATE of a non-key column, "K" of the
\* foreign-key check of an INSERT of a child row
Conflict(m1, m2) ==
    CASE m1 = "U" -> TRUE
      [] m1 = "N" -> m2 \in {"U", "N"}
      [] m1 = "K" -> m2 = "U"

Blocked(c, l, m) ==
    \E c2 \in Conns \ {c} : \E h \in conns[c2].held : h[1] = l /\ Conflict(h[2], m)

\* a lock taken by a statement lasts to the end of the transaction it runs in
ConnsAfterLock(cs, c, l, m) ==
    IF cs[c].txn = "open" THEN [cs EXCEPT ![c].held = @ \cup {<<l, m>>}] ELSE cs

\* the client of a failed statement is removed: its connection closes
ConnsAfterError(c) == [conns EXCEPT ![c] = CleanConn]

\* client c comes back from its statement: to the idle stack, or out of the pool
IdleAfter(c, err) == IF err THEN idle ELSE Append(idle, c)
ClientsAfter(c, err) == IF err THEN clients \ {c} ELSE clients

PgOn(r, op, pc) ==
    backend = "pg" /\ up /\ req[r].op = op /\ req[r].pc = pc /\ req[r].cl # 0

\* pool.query: check a client out and send the statement
PgSend(r) ==
    /\ backend = "pg" /\ up
    /\ req[r].op \in {"lend", "pay", "ledger", "overview"}
    /\ req[r].pc \notin {"done", "hung"}
    /\ req[r].cl = 0
    /\ IF idle # << >>
       THEN /\ req' = [req EXCEPT ![r] = Called([@ EXCEPT !.cl = idle[Len(idle)]])]
            /\ idle' = SubSeq(idle, 1, Len(idle) - 1)
            /\ UNCHANGED clients
       ELSE /\ Cardinality(clients) < MaxClients
            /\ LET c == CHOOSE x \in Conns \ clients : \A y \in Conns \ clients : x <= y
               IN  /\ req' = [req EXCEPT ![r] = Called([@ EXCEPT !.cl = c])]
                   /\ clients' = clients \cup {c}
            /\ UNCHANGED idle
    /\ UNCHANGED <<backend, up, db, conns, faults>>

\* a rejected promise nobody handles: the request is never answered, and the
\* process may end
PgUnhandled(r, crash) ==
    /\ up' = ~crash
    /\ LET rq == [req EXCEPT ![r] = Erred([@ EXCEPT !.pc = "hung", !.cl = 0], "rollback")]
       IN  req' = IF crash THEN Crashed(rq) ELSE rq

PgLendStart(r, b) ==
    /\ backend = "pg" /\ up /\ req[r].op = "none"
    /\ req' = [req EXCEPT ![r] =
                 IF LendMissing(b) \/ LendInvalid(b)
                 THEN [NoReq EXCEPT !.op = "lend", !.body = b, !.pc = "done", !.code = 400]
                 ELSE [NoReq EXCEPT !.op = "lend", !.body = b, !.pc = "selcust"]]
    /\ UNCHANGED <<backend, up, db, conns, idle, clients, faults>>

LendFailed(q) == Erred([q EXCEPT !.pc = "done", !.code = 500, !.cl = 0], q.pc)

PgLendSelCust(r) ==
    /\ PgOn(r, "lend", "selcust")
    /\ LET c == req[r].cl IN
       \E f \in FaultChoices :
         /\ faults' = FaultsAfter(f)
         /\ conns' = IF f THEN ConnsAfterError(c) ELSE conns
         /\ idle' = IdleAfter(c, f)
         /\ clients' = ClientsAfter(c, f)
         /\ req' = [req EXCEPT ![r] =
                      IF f THEN LendFailed(@)
                      ELSE IF req[r].body.customer_id \in View(c).cust
                           THEN [@ EXCEPT !.pc = "insloan", !.cl = 0]
                           ELSE [@ EXCEPT !.pc = "inscust", !.cl = 0]]
    /\ UNCHANGED <<backend, up, db>>

\* awaited inside the try: its error is caught with every other and answered 500
PgLendInsCust(r) ==
    /\ PgOn(r, "lend", "inscust")
    /\ LET c == req[r].cl
           id == req[r].body.customer_id
           op == [k |-> "cust", cust |-> id]
       IN
       \* an uncommitted insert of the same key by another transaction is waited for
       /\ ~ \E c2 \in Conns \ {c} : \E i \in DOMAIN conns[c2].pend : conns[c2].pend[i] = op
       /\ \E f \in FaultChoices :
            LET err == f \/ id \in View(c).cust IN
            /\ faults' = FaultsAfter(f)
            /\ db' = IF err THEN db ELSE DbAfterWrite(c, op)
            /\ conns' = IF err THEN ConnsAfterError(c) ELSE ConnsAfterWrite(c, op)
            /\ idle' = IdleAfter(c, err)
            /\ clients' = ClientsAfter(c, err)
            /\ req' = [req EXCEPT ![r] =
                         IF err THEN LendFailed(@) ELSE [@ EXCEPT !.pc = "insloan", !.cl = 0]]
    /\ UNCHANGED <<backend, up>>

PgLendInsLoan(r) ==
    /\ PgOn(r, "lend", "insloan")
    /\ LET c == req[r].cl
           row == NewLoanRow(r, req[r].body)
           op == [k |-> "loan", row |-> row]
       IN
       \E f \in FaultChoices :
         \* the foreign key: the customer row must be visible to the statement
         LET err == f \/ row.customer_id \notin View(c).cust IN
         /\ faults' = FaultsAfter(f)
         /\ db' = IF err THEN db ELSE DbAfterWrite(c, op)
         /\ conns' = IF err THEN ConnsAfterError(c) ELSE ConnsAfterWrite(c, op)
         /\ idle' = IdleAfter(c, err)
         /\ clients' = ClientsAfter(c, err)
         /\ req' = [req EXCEPT ![r] =
                      IF err THEN LendFailed(@)
                      ELSE [@ EXCEPT !.pc = "done", !.code = 201, !.loan = row,
                                     !.out = LendResponse(r, req[r].body), !.cl = 0]]
    /\ UNCHANGED <<backend, up>>

PgPayStart(r, b) ==
    /\ backend = "pg" /\ up /\ req[r].op = "none"
    /\ req' = [req EXCEPT ![r] =
                 IF PayMissing(b) \/ PayInvalid(b)
                 THEN [NoReq EXCEPT !.op = "pay", !.body = b, !.pc = "done", !.code = 400]
                 ELSE [NoReq EXCEPT !.op = "pay", !.body = b, !.pc = "begin"]]
    /\ UNCHANGED <<backend, up, db, conns, idle, clients, faults>>

\* any awaited call that throws lands in the catch block, whose first act is ROLLBACK
Caught(q) == Erred([q EXCEPT !.pc = "rollback", !.cl = 0], q.pc)

PgPayBegin(r) ==
    /\ PgOn(r, "pay", "begin")
    /\ LET c == req[r].cl IN
       \E f \in FaultChoices :
         /\ faults' = FaultsAfter(f)
         /\ conns' = IF f THEN ConnsAfterError(c)
                     ELSE [conns EXCEPT ![c].txn = "open"]
         /\ idle' = IdleAfter(c, f)
         /\ clients' = ClientsAfter(c, f)
         /\ req' = [req EXCEPT ![r] =
                      IF f THEN Caught(@)
                      ELSE [@ EXCEPT !.pc = "selloan", !.cl = 0]]
    /\ UNCHANGED <<backend, up, db>>

\* SELECT * FROM Loans WHERE loan_id = $1 FOR UPDATE
PgPaySelLoan(r) ==
    /\ PgOn(r, "pay", "selloan")
    /\ LET c == req[r].cl
           l == req[r].body.loan_id
           v == View(c)
       IN
       /\ ~Blocked(c, l, "U")
       /\ \E f \in FaultChoices :
            /\ faults' = FaultsAfter(f)
            /\ conns' = IF f THEN ConnsAfterError(c)
                        ELSE IF l \in DOMAIN v.loans THEN ConnsAfterLock(conns, c, l, "U")
                        ELSE conns
            /\ idle' = IdleAfter(c, f)
            /\ clients' = ClientsAfter(c, f)
            /\ req' = [req EXCEPT ![r] =
                         IF f THEN Caught(@)
                         ELSE IF l \notin DOMAIN v.loans
                              THEN [@ EXCEPT !.pc = "rollback_nf", !.cl = 0]
                         ELSE IF v.loans[l].status = "PAID_OFF"
                              THEN [@ EXCEPT !.pc = "rollback_po", !.cl = 0]
                         ELSE [@ EXCEPT !.pc = "selpays", !.loan = v.loans[l], !.cl = 0]]
    /\ UNCHANGED <<backend, up, db>>

\* the ROLLBACK before a 404 or an "already paid off" 400
PgPayRollbackEarly(r) ==
    /\ backend = "pg" /\ up /\ req[r].op = "pay" /\ req[r].cl # 0
    /\ req[r].pc \in {"rollback_nf", "rollback_po"}
    /\ LET c == req[r].cl IN
       \E f \in FaultChoices :
         /\ faults' = FaultsAfter(f)
         /\ conns' = ConnsAfterEnd(c)
         /\ idle' = IdleAfter(c, f)
         /\ clients' = ClientsAfter(c, f)
         /\ req' = [req EXCEPT ![r] =
                      IF f THEN Caught(@)
                      ELSE [@ EXCEPT !.pc = "done", !.cl = 0,
                                     !.code = IF req[r].pc = "rollback_nf" THEN 404 ELSE 400]]
    /\ UNCHANGED <<backend, up, db>>

PgPaySelPays(r) ==
    /\ PgOn(r, "pay", "selpays")
    /\ LET c == req[r].cl
           rows == PaysOf(View(c), req[r].body.loan_id)
           rc == Reconcile(req[r].loan, rows, req[r].body.amount, req[r].body.payment_type)
       IN
       \E f \in FaultChoices :
         /\ faults' = FaultsAfter(f)
         /\ conns' = IF f THEN ConnsAfterError(c) ELSE conns
         /\ idle' = IdleAfter(c, f)
         /\ clients' = ClientsAfter(c, f)
         /\ req' = [req EXCEPT ![r] =
                      IF f THEN Caught(@)
                      ELSE [@ EXCEPT !.pc = "insert", !.rem = rc.rem, !.cl = 0,
                                     !.newStatus = rc.newStatus, !.emis = rc.emis]]
    /\ UNCHANGED <<backend, up, db>>

PgPayInsert(r) ==
    /\ PgOn(r, "pay", "insert")
    /\ LET c == req[r].cl
           l == req[r].body.loan_id
           op == [k |-> "pay", row |-> NewPaymentRow(r, req[r].body)]
       IN
       /\ ~Blocked(c, l, "K")
       /\ \E f \in FaultChoices :
            \* the foreign key: the loan row must be visible to the statement
            LET err == f \/ l \notin DOMAIN View(c).loans IN
            /\ faults' = FaultsAfter(f)
            /\ db' = IF err THEN db ELSE DbAfterWrite(c, op)
            /\ conns' = IF err THEN ConnsAfterError(c)
                        ELSE ConnsAfterLock(ConnsAfterWrite(c, op), c, l, "K")
            /\ idle' = IdleAfter(c, err)
            /\ clients' = ClientsAfter(c, err)
            /\ req' = [req EXCEPT ![r] =
                         IF err THEN Caught(@) ELSE [@ EXCEPT !.pc = "update", !.cl = 0]]
    /\ UNCHANGED <<backend, up>>

PgPayUpdate(r) ==
    /\ PgOn(r, "pay", "update")
    /\ LET c == req[r].cl
           l == req[r].body.loan_id
           op == [k |-> "status", loan |-> l, status |-> req[r].newStatus]
           hit == l \in DOMAIN View(c).loans
       IN
       /\ hit => ~Blocked(c, l, "N")
       /\ \E f \in FaultChoices :
            /\ faults' = FaultsAfter(f)
            /\ db' = IF f THEN db ELSE DbAfterWrite(c, op)
            /\ conns' = IF f THEN ConnsAfterError(c)
                        ELSE IF hit THEN ConnsAfterLock(ConnsAfterWrite(c, op), c, l, "N")
                        ELSE conns
            /\ idle' = IdleAfter(c, f)
            /\ clients' = ClientsAfter(c, f)
            /\ req' = [req EXCEPT ![r] =
                         IF f THEN Caught(@)
                         ELSE [@ EXCEPT !.pc = "commit", !.cl = 0]]
    /\ UNCHANGED <<backend, up>>

\* COMMIT on a client with no transaction open commits nothing and reports no error
PgPayCommit(r) ==
    /\ PgOn(r, "pay", "commit")
    /\ LET c == req[r].cl IN
       \E f \in FaultChoices :
         /\ faults' = FaultsAfter(f)
         /\ db' = IF f THEN db ELSE DbAfterCommit(c)
         /\ conns' = ConnsAfterEnd(c)
         /\ idle' = IdleAfter(c, f)
         /\ clients' = ClientsAfter(c, f)
         /\ req' = [req EXCEPT ![r] =
                      IF f THEN Caught(@)
                      ELSE [@ EXCEPT !.pc = "done", !.code = 200, !.cl = 0]]
    /\ UNCHANGED <<backend, up>>

\* the catch block: await db.query('ROLLBACK'), then the 500
PgPayRollback(r) ==
    /\ PgOn(r, "pay", "rollback")
    /\ LET c == req[r].cl IN
       \E f \in FaultChoices :
         /\ faults' = FaultsAfter(f)
         /\ idle' = IdleAfter(c, f)
         /\ clients' = ClientsAfter(c, f)
         /\ IF f
            THEN \E crash \in BOOLEAN :
                   /\ PgUnhandled(r, crash)
                   /\ conns' = IF crash THEN Down ELSE ConnsAfterEnd(c)
            ELSE /\ conns' = ConnsAfterEnd(c)
                 /\ req' = [req EXCEPT ![r].pc = "done", ![r].code = 500, ![r].cl = 0]
                 /\ UNCHANGED up
    /\ UNCHANGED <<backend, db>>

(***************************************************************************)
(* Request bodies explored                                                 *)
(***************************************************************************)
LendBody(c, p, y, rt, m) ==
    [NoBody EXCEPT !.customer_id = c, !.loan_amount = p, !.loan_period_years = y,
                   !.interest_rate_yearly = rt, !.miss = m]

PayBody(l, a, t, m) ==
    [NoBody EXCEPT !.loan_id = l, !.amount = a, !.payment_type = t, !.miss = m]

\* request 1 asks for the loan, the other requests pay against it
LendReqs == {r \in Reqs : r = 1}
PayReqs == Reqs \ LendReqs

LendBodies ==
    { LendBody("c1", 1000, 1, 20, {}),
      LendBody("c1", 1000, 1, 0, {}),
      LendBody("c1", 1000, 1, -5, {}),
      LendBody("c1", 1000, 1, 0, {"interest_rate_yearly"}),
      LendBody("c1", 0, 1, 20, {}),
      LendBody("c1", -1000, 1, 20, {}),
      LendBody("c1", 1000, 0, 20, {}),
      LendBody("", 1000, 1, 20, {}) }

PayBodies ==
    { PayBody(1, a, "EMI", {}) : a \in {600, 700, 1200} }
      \cup { PayBody(1, -600, "EMI", {}), PayBody(1, 600, "CASH", {}),
             PayBody(1, 0, "EMI", {"amount"}), PayBody(0, 600, "EMI", {}) }

\* a client can name a loan only once the 201 that carries its id was sent;
\* loan id 0 is an id no request generates
KnownLoans == {r \in Reqs : req[r].op = "lend" /\ req[r].code = 201} \cup {0}

PayBodiesNow == {b \in PayBodies : b.loan_id \in KnownLoans}

\* no other request is in progress
Alone(r) == \A q \in Reqs \ {r} : req[q].pc \in {"idle", "done", "hung"}

\* a request is accepted at any time, or (oneAtATime) only when no other is
\* in progress
MayStart(r, oneAtATime) == oneAtATime => Alone(r)

\* the SQLite server
LiteServer(oneAtATime) ==
    \/ \E r \in LendReqs :
        \/ \E b \in LendBodies : MayStart(r, oneAtATime) /\ LiteLendStart(r, b)
        \/ LiteLendSelCust(r)
        \/ LiteLendInsCust(r)
        \/ LiteLendInsLoan(r)
    \/ \E r \in PayReqs :
        \/ \E b \in PayBodiesNow : MayStart(r, oneAtATime) /\ LitePayStart(r, b)
        \/ LitePaySelLoan(r)
        \/ LitePaySelPays(r)
        \/ LitePayBegin(r)
        \/ LitePayInsert(r)
        \/ LitePayUpdate(r)
        \/ LitePayCommit(r)
        \/ LitePayRollback(r)

\* the PostgreSQL server
PgServer(oneAtATime) ==
    \/ \E r \in Reqs : PgSend(r)
    \/ \E r \in LendReqs :
        \/ \E b \in LendBodies : MayStart(r, oneAtATime) /\ PgLendStart(r, b)
        \/ PgLendSelCust(r)
        \/ PgLendInsCust(r)
        \/ PgLendInsLoan(r)
    \/ \E r \in PayReqs :
        \/ \E b \in PayBodiesNow : MayStart(r, oneAtATime) /\ PgPayStart(r, b)
        \/ PgPayBegin(r)
        \/ PgPaySelLoan(r)
        \/ PgPayRollbackEarly(r)
        \/ PgPaySelPays(r)
        \/ PgPayInsert(r)
        \/ PgPayUpdate(r)
        \/ PgPayCommit(r)
        \/ PgPayRollback(r)

\* requests arrive at any time
NextLite == LiteServer(FALSE)
SpecLite == Init /\ [][NextLite]_vars

NextPg == PgServer(FALSE)
SpecPg == Init /\ [][NextPg]_vars

Next == NextLite \/ NextPg
Spec == Init /\ [][Next]_vars

\* requests are served one after the other
NextLiteSeq == LiteServer(TRUE)
NextPgSeq == PgServer(TRUE)
NextSeq == NextLiteSeq \/ NextPgSeq
SpecSeq == Init /\ [][NextSeq]_vars

(***************************************************************************)
(* Ledger read, as a function of the rows it is given                      *)
(***************************************************************************)
\* a ledger that reports the status the rows imply instead of the stored one
LedgerResponseFixup(loan, transactions) ==
    LET originalTotalAmount == OriginalTotal(loan)
        amountPaid == SumAmounts(transactions)
        balanceAmount == originalTotalAmount - amountPaid
    IN  [total_amount |-> originalTotalAmount,
         amount_paid |-> amountPaid,
         balance_amount |-> balanceAmount,
         emis_left |-> IF loan.monthly_emi.n > 0
                       THEN CeilDiv(Max(0, balanceAmount) * loan.monthly_emi.d,
                                    loan.monthly_emi.n)
                       ELSE 0,
         status |-> IF balanceAmount <= 0 THEN "PAID_OFF" ELSE loan.status,
         transactions |-> transactions]

LedgerResponse(loan, transactions) ==
    LET originalTotalAmount == OriginalTotal(loan)
        amountPaid == SumAmounts(transactions)
        balanceAmount == originalTotalAmount - amountPaid
    IN  [total_amount |-> originalTotalAmount,
         amount_paid |-> amountPaid,
         balance_amount |-> balanceAmount,
         emis_left |-> IF loan.monthly_emi.n > 0
                       THEN CeilDiv(Max(0, balanceAmount) * loan.monthly_emi.d,
                                    loan.monthly_emi.n)
                       ELSE 0,
         status |-> loan.status,
         transactions |-> transactions]

\* the ledger of loan l over the rows of store d, in the order they were inserted
Ledger(d, l) == LedgerResponse(d.loans[l], PaysOf(d, l))

(***************************************************************************)
(* The two GET handlers                                                    *)
(***************************************************************************)
\* ORDER BY payment_date ASC: ascending dates; rows of one date stay in the
\* order the scan of the table meets them, which is the order of insertion
RECURSIVE InsertByDate(_, _)
InsertByDate(sorted, p) ==
    IF sorted = << >> THEN <<p>>
    ELSE IF Head(sorted).payment_date <= p.payment_date
    THEN <<Head(sorted)>> \o InsertByDate(Tail(sorted), p)
    ELSE <<p>> \o sorted

RECURSIVE OrderByDate(_)
OrderByDate(rows) ==
    IF rows = << >> THEN << >>
    ELSE InsertByDate(OrderByDate(SubSeq(rows, 1, Len(rows) - 1)), rows[Len(rows)])

\* SELECT payment_id AS transaction_id, payment_date AS date, amount, payment_type AS type
Transaction(p) ==
    [transaction_id |-> p.payment_id, date |-> p.payment_date, amount |-> p.amount,
     type |-> p.payment_type]

SelectTransactions(d, l) ==
    LET rows == OrderByDate(PaysOf(d, l))
    IN  [i \in DOMAIN rows |-> Transaction(rows[i])]

RECURSIVE Ascending(_)
Ascending(S) ==
    IF S = {} THEN << >>
    ELSE LET m == CHOOSE x \in S : \A y \in S : x <= y
         IN  <<m>> \o Ascending(S \ {m})

\* SELECT * FROM Loans WHERE customer_id = ?
LoansOf(d, c) ==
    LET ids == Ascending({l \in DOMAIN d.loans : d.loans[l].customer_id = c})
    IN  [i \in DOMAIN ids |-> d.loans[ids[i]]]

\* an overview that looks for the customer in Customers instead
OverviewNotFoundByCustomer(d, c, loans) == c \notin d.cust

\* if (!loans || loans.length === 0): the 404 of the overview
OverviewNotFound(d, c, loans) == Len(loans) = 0

\* an overview that counts the instalments left without Math.max(0, ...)
OverviewEntryUnclamped(loan, payments) ==
    LET amountPaid == SumAmounts(payments)
        totalInterest == Interest(loan.principal_amount, loan.loan_period_years,
                                  loan.interest_rate)
        totalAmountPayable == loan.principal_amount + totalInterest
        balanceAmount == totalAmountPayable - amountPaid
    IN  [loan_id |-> loan.loan_id,
         principal |-> loan.principal_amount,
         total_amount |-> totalAmountPayable,
         total_interest |-> totalInterest,
         emi_amount |-> loan.monthly_emi,
         amount_paid |-> amountPaid,
         emis_left |-> IF loan.monthly_emi.n > 0
                       THEN CeilDiv(balanceAmount * loan.monthly_emi.d, loan.monthly_emi.n)
                       ELSE 0,
         status |-> loan.status]

\* one element of the overview's `loans`
OverviewEntry(loan, payments) ==
    LET amountPaid == SumAmounts(payments)
        totalInterest == Interest(loan.principal_amount, loan.loan_period_years,
                                  loan.interest_rate)
        totalAmountPayable == loan.principal_amount + totalInterest
        balanceAmount == totalAmountPayable - amountPaid
    IN  [loan_id |-> loan.loan_id,
         principal |-> loan.principal_amount,
         total_amount |-> totalAmountPayable,
         total_interest |-> totalInterest,
         emi_amount |-> loan.monthly_emi,
         amount_paid |-> amountPaid,
         emis_left |-> IF loan.monthly_emi.n > 0
                       THEN CeilDiv(Max(0, balanceAmount) * loan.monthly_emi.d,
                                    loan.monthly_emi.n)
                       ELSE 0,
         status |-> loan.status]

OverviewResponse(c, resolvedLoans) ==
    [customer_id |-> c, total_loans |-> Len(resolvedLoans), loans |-> resolvedLoans]

\* the overview after the answer to one more SELECT amount FROM Payments
OverviewStep(q, d) ==
    LET loan == q.rows[Len(q.entries) + 1]
        got == Append(q.entries, OverviewEntry(loan, PaysOf(d, loan.loan_id)))
    IN  IF Len(got) = Len(q.rows)
        THEN [q EXCEPT !.entries = got, !.pc = "done", !.code = 200,
                       !.out = OverviewResponse(q.body.customer_id, got)]
        ELSE [q EXCEPT !.entries = got]

\* loans.map(...) issues one SELECT per loan; Promise.all of no promise at all
\* resolves at once
OverviewFanOut(q, loans) ==
    IF Len(loans) = 0
    THEN [q EXCEPT !.pc = "done", !.code = 200,
                   !.out = OverviewResponse(q.body.customer_id, << >>)]
    ELSE [q EXCEPT !.pc = "selpays", !.rows = loans]

LedgerBody(l) == [NoBody EXCEPT !.loan_id = l]
OverviewBody(c) == [NoBody EXCEPT !.customer_id = c]

\* SQLite: GET /api/v1/loans/:loan_id/ledger
LiteLedgerStart(r, l) ==
    /\ backend = "sqlite" /\ up /\ req[r].op = "none"
    /\ req' = [req EXCEPT ![r] =
                 [NoReq EXCEPT !.op = "ledger", !.body = LedgerBody(l), !.pc = "selloan"]]
    /\ UNCHANGED <<backend, up, db, conns, idle, clients, faults>>

LiteLedgerSelLoan(r) ==
    /\ LiteOn(r, "ledger", "selloan")
    /\ \E f \in FaultChoices :
         LET v == View(LiteConn)
             l == req[r].body.loan_id
         IN  /\ faults' = FaultsAfter(f)
             /\ req' = [req EXCEPT ![r] = Called(
                          IF f THEN Erred([@ EXCEPT !.pc = "done", !.code = 500], "selloan")
                          ELSE IF l \notin DOMAIN v.loans
                               THEN [@ EXCEPT !.pc = "done", !.code = 404]
                          ELSE [@ EXCEPT !.pc = "selpays", !.loan = v.loans[l]])]
    /\ UNCHANGED <<backend, up, db, conns, idle, clients>>

LiteLedgerSelPays(r) ==
    /\ LiteOn(r, "ledger", "selpays")
    /\ \E f \in FaultChoices :
         LET transactions == SelectTransactions(View(LiteConn), req[r].body.loan_id)
         IN  /\ faults' = FaultsAfter(f)
             /\ req' = [req EXCEPT ![r] = Called(
                          IF f THEN Erred([@ EXCEPT !.pc = "done", !.code = 500], "selpays")
                          ELSE [@ EXCEPT !.pc = "done", !.code = 200,
                                         !.out = LedgerResponse(req[r].loan, transactions)])]
    /\ UNCHANGED <<backend, up, db, conns, idle, clients>>

\* SQLite: GET /api/v1/customers/:customer_id/overview
LiteOverviewStart(r, c) ==
    /\ backend = "sqlite" /\ up /\ req[r].op = "none"
    /\ req' = [req EXCEPT ![r] =
                 [NoReq EXCEPT !.op = "overview", !.body = OverviewBody(c), !.pc = "selloans"]]
    /\ UNCHANGED <<backend, up, db, conns, idle, clients, faults>>

LiteOverviewSelLoans(r) ==
    /\ LiteOn(r, "overview", "selloans")
    /\ \E f \in FaultChoices :
         LET loans == LoansOf(View(LiteConn), req[r].body.customer_id)
         IN  /\ faults' = FaultsAfter(f)
             /\ req' = [req EXCEPT ![r] = Called(
                          IF f THEN Erred([@ EXCEPT !.pc = "done", !.code = 500], "selloans")
                          ELSE IF OverviewNotFound(View(LiteConn), req[r].body.customer_id,
                                                   loans)
                               THEN [@ EXCEPT !.pc = "done", !.code = 404]
                          ELSE OverviewFanOut(@, loans))]
    /\ UNCHANGED <<backend, up, db, conns, idle, clients>>

\* the callbacks of the per-loan SELECTs come back in the order the calls
\* were queued on the connection; the first error rejects Promise.all
LiteOverviewSelPays(r) ==
    /\ LiteOn(r, "overview", "selpays")
    /\ \E f \in FaultChoices :
         /\ faults' = FaultsAfter(f)
         /\ req' = [req EXCEPT ![r] = Called(
                      IF f THEN Erred([@ EXCEPT !.pc = "done", !.code = 500], "selpays")
                      ELSE OverviewStep(@, View(LiteConn)))]
    /\ UNCHANGED <<backend, up, db, conns, idle, clients>>

\* PostgreSQL: a db.query that throws inside the try of a GET handler
ReadCaught(q) == Erred([q EXCEPT !.pc = "done", !.code = 500, !.cl = 0], q.pc)

\* PostgreSQL: GET /api/v1/loans/:loan_id/ledger
PgLedgerStart(r, l) ==
    /\ backend = "pg" /\ up /\ req[r].op = "none"
    /\ req' = [req EXCEPT ![r] =
                 [NoReq EXCEPT !.op = "ledger", !.body = LedgerBody(l), !.pc = "selloan"]]
    /\ UNCHANGED <<backend, up, db, conns, idle, clients, faults>>

PgLedgerSelLoan(r) ==
    /\ PgOn(r, "ledger", "selloan")
    /\ LET c == req[r].cl
           l == req[r].body.loan_id
           v == View(c)
       IN
       \E f \in FaultChoices :
         /\ faults' = FaultsAfter(f)
         /\ conns' = IF f THEN ConnsAfterError(c) ELSE conns
         /\ idle' = IdleAfter(c, f)
         /\ clients' = ClientsAfter(c, f)
         /\ req' = [req EXCEPT ![r] =
                      IF f THEN ReadCaught(@)
                      ELSE IF l \notin DOMAIN v.loans
                           THEN [@ EXCEPT !.pc = "done", !.code = 404, !.cl = 0]
                      ELSE [@ EXCEPT !.pc = "selpays", !.loan = v.loans[l], !.cl = 0]]
    /\ UNCHANGED <<backend, up, db>>

PgLedgerSelPays(r) ==
    /\ PgOn(r, "ledger", "selpays")
    /\ LET c == req[r].cl
           transactions == SelectTransactions(View(c), req[r].body.loan_id)
       IN
       \E f \in FaultChoices :
         /\ faults' = FaultsAfter(f)
         /\ conns' = IF f THEN ConnsAfterError(c) ELSE conns
         /\ idle' = IdleAfter(c, f)
         /\ clients' = ClientsAfter(c, f)
         /\ req' = [req EXCEPT ![r] =
                      IF f THEN ReadCaught(@)
                      ELSE [@ EXCEPT !.pc = "done", !.code = 200, !.cl = 0,
                                     !.out = LedgerResponse(req[r].loan, transactions)]]
    /\ UNCHANGED <<backend, up, db>>

\* PostgreSQL: GET /api/v1/customers/:customer_id/overview
PgOverviewStart(r, c) ==
    /\ backend = "pg" /\ up /\ req[r].op = "none"
    /\ req' = [req EXCEPT ![r] =
                 [NoReq EXCEPT !.op = "overview", !.body = OverviewBody(c), !.pc = "selloans"]]
    /\ UNCHANGED <<backend, up, db, conns, idle, clients, faults>>

PgOverviewSelLoans(r) ==
    /\ PgOn(r, "overview", "selloans")
    /\ LET c == req[r].cl
           loans == LoansOf(View(c), req[r].body.customer_id)
       IN
       \E f \in FaultChoices :
         /\ faults' = FaultsAfter(f)
         /\ conns' = IF f THEN ConnsAfterError(c) ELSE conns
         /\ idle' = IdleAfter(c, f)
         /\ clients' = ClientsAfter(c, f)
         /\ req' = [req EXCEPT ![r] =
                      IF f THEN ReadCaught(@)
                      ELSE IF OverviewNotFound(View(c), req[r].body.customer_id, loans)
                           THEN [@ EXCEPT !.pc = "done", !.code = 404, !.cl = 0]
                      ELSE [OverviewFanOut(@, loans) EXCEPT !.cl = 0]]
    /\ UNCHANGED <<backend, up, db>>

\* one of the per-loan SELECTs of Promise.all(loans.map(...)) is answered; the
\* result array is in the order of `loans`
PgOverviewSelPays(r) ==
    /\ PgOn(r, "overview", "selpays")
    /\ LET c == req[r].cl IN
       \E f \in FaultChoices :
         /\ faults' = FaultsAfter(f)
         /\ conns' = IF f THEN ConnsAfterError(c) ELSE conns
         /\ idle' = IdleAfter(c, f)
         /\ clients' = ClientsAfter(c, f)
         /\ req' = [req EXCEPT ![r] =
                      IF f THEN ReadCaught(@)
                      ELSE [OverviewStep(@, View(c)) EXCEPT !.cl = 0]]
    /\ UNCHANGED <<backend, up, db>>

(***************************************************************************)
(* The GET handlers over a store that earlier requests have filled.        *)
(* The store holds two loans of 1000 over 1 year at 20% (total 1200): loan  *)
(* 1 of customer c1, loan 2 of c1 or of c2; c2 has a Customers row also     *)
(* when it has no loan.  Up to MaxPays Payment rows are listed in the order *)
(* of their insertion.  A stored status is any of the two, since the        *)
(* payment handler can leave either next to any sum of rows.                *)
(*                                                                         *)
(* payment_date: SQLite stamps a row with CURRENT_TIMESTAMP (one-second     *)
(* resolution) when it is inserted, so dates never decrease along the       *)
(* insertions and may repeat.  PostgreSQL stamps NOW(), the start time of   *)
(* the transaction open on the pool client the INSERT runs on; an INSERT    *)
(* that lands on a client whose BEGIN ran earlier than the INSERT of a row  *)
(* already stored gets the earlier date, so dates may also decrease.        *)
(***************************************************************************)
ReadLoans ==
    { [l \in {1, 2} |->
         [NewLoanRow(l, LendBody(IF l = 1 THEN "c1" ELSE c, 1000, 1, 20, {}))
            EXCEPT !.status = IF l = 1 THEN st ELSE "ACTIVE"]] :
      c \in {"c1", "c2"}, st \in {"ACTIVE", "PAID_OFF"} }

ReadPayment(i, l, a, t) ==
    [payment_id |-> i, loan_id |-> l, amount |-> a, payment_type |-> "EMI",
     payment_date |-> t]

RECURSIVE ReadPays(_)
ReadPays(n) ==
    IF n = 0 THEN { << >> }
    ELSE LET shorter == ReadPays(n - 1)
         IN  shorter \cup
             { Append(ps, ReadPayment(Len(ps) + 1, l, a, t)) :
                 ps \in {x \in shorter : Len(x) = n - 1},
                 l \in {1, 2}, a \in {600, 700}, t \in 1..MaxDate }

DatesAscend(ps) == \A i, j \in DOMAIN ps : i < j => ps[i].payment_date <= ps[j].payment_date

ReadStores(b) ==
    { [cust |-> {"c1", "c2"}, loans |-> ls, pays |-> ps] :
        ls \in ReadLoans,
        ps \in {x \in ReadPays(MaxPays) : b = "pg" \/ DatesAscend(x)} }

InitRead ==
    /\ backend \in {"sqlite", "pg"}
    /\ up = TRUE
    /\ db \in ReadStores(backend)
    /\ conns = [c \in Conns |-> CleanConn]
    /\ idle = << >>
    /\ clients = {}
    /\ req = [r \in Reqs |-> NoReq]
    /\ faults = MaxFaults

\* two GET requests, served one after the other; a loan id (0) and a customer
\* id (c3) that name no row
ReadReqs == {r \in Reqs : r <= 2}
LedgerIds == {0, 1, 2}
OverviewIds == {"c1", "c2", "c3"}

NextRead ==
    \/ \E r \in ReadReqs :
        \/ \E l \in LedgerIds : Alone(r) /\ LiteLedgerStart(r, l)
        \/ LiteLedgerSelLoan(r)
        \/ LiteLedgerSelPays(r)
        \/ \E c \in OverviewIds : Alone(r) /\ LiteOverviewStart(r, c)
        \/ LiteOverviewSelLoans(r)
        \/ LiteOverviewSelPays(r)
    \/ \E r \in ReadReqs :
        \/ PgSend(r)
        \/ \E l \in LedgerIds : Alone(r) /\ PgLedgerStart(r, l)
        \/ PgLedgerSelLoan(r)
        \/ PgLedgerSelPays(r)
        \/ \E c \in OverviewIds : Alone(r) /\ PgOverviewStart(r, c)
        \/ PgOverviewSelLoans(r)
        \/ PgOverviewSelPays(r)

SpecRead == InitRead /\ [][NextRead]_vars

(***************************************************************************)
(* Vocabulary of the properties                                            *)
(***************************************************************************)
\* the environment has failed no storage call
NoFault == faults = MaxFaults

\* no storage call of any request has returned an error
NoError == NoFault /\ \A r \in Reqs : req[r].errs = {}

\* no request is in progress
Quiet == \A r \in Reqs : req[r].pc \in {"idle", "done"}

PaysOn(l) == {r \in Reqs : req[r].op = "pay" /\ req[r].body.loan_id = l}

RowsOf(r) == {i \in DOMAIN db.pays : db.pays[i].payment_id = r}

Orders(S) ==
    {o \in [1..Cardinality(S) -> S] : \A i, j \in DOMAIN o : i # j => o[i] # o[j]}

\* the payments of ord applied one at a time to a loan row and its payment rows
RECURSIVE Serial(_, _, _)
Serial(loan, rows, ord) ==
    IF ord = << >>
    THEN [ok |-> TRUE, status |-> loan.status, rows |-> rows, rems |-> << >>]
    ELSE IF loan.status = "PAID_OFF"
    THEN [ok |-> FALSE, status |-> loan.status, rows |-> rows, rems |-> << >>]
    ELSE LET r == Head(ord)
             rc == Reconcile(loan, rows, req[r].body.amount, req[r].body.payment_type)
             rest == Serial([loan EXCEPT !.status = rc.newStatus],
                            Append(rows, NewPaymentRow(r, req[r].body)), Tail(ord))
         IN  [rest EXCEPT !.rems = <<rc.rem>> \o rest.rems]

Range(f) == {f[i] : i \in DOMAIN f}

SerialMatches(l, ord) ==
    LET out == Serial([db.loans[l] EXCEPT !.status = "ACTIVE"], << >>, ord)
    IN  /\ out.ok
        /\ out.status = db.loans[l].status
        /\ Range(out.rows) = Range(PaysOf(db, l))
        /\ Len(out.rows) = Len(PaysOf(db, l))
        /\ \A i \in DOMAIN ord : req[ord[i]].rem = out.rems[i]

(***************************************************************************)
(* C1: payments on one loan that all succeed leave the rows, the status    *)
(* and the returned remaining balances of some one-at-a-time order (here   *)
(* with no storage call failing at all).                                   *)
(***************************************************************************)
C1_Serializable ==
    (Quiet /\ NoError) =>
      \A l \in DOMAIN db.loans :
        (Cardinality(PaysOn(l)) > 1 /\ \A r \in PaysOn(l) : req[r].code = 200)
          => \E ord \in Orders(PaysOn(l)) : SerialMatches(l, [i \in DOMAIN ord |-> ord[i]])

(***************************************************************************)
(* C2: a stored status that is PAID_OFF is never written back to ACTIVE.   *)
(***************************************************************************)
C2_StatusMonotone ==
    [][\A l \in DOMAIN db.loans :
          (NoError' /\ db.loans[l].status = "PAID_OFF")
            => (l \in DOMAIN db'.loans /\ db'.loans[l].status = "PAID_OFF")]_vars

(***************************************************************************)
(* C3: no Payment row of a loan is committed once its stored status is     *)
(* PAID_OFF and the rows that paid it off are committed.                   *)
(***************************************************************************)
C3_NoRowAfterPaidOff ==
    [][\A l \in DOMAIN db.loans :
          (/\ NoError'
           /\ db.loans[l].status = "PAID_OFF"
           /\ SumAmounts(PaysOf(db, l)) >= OriginalTotal(db.loans[l]))
             => PaysOf(db', l) = PaysOf(db, l)]_vars

(***************************************************************************)
(* C4: when every request has been answered, each payment answered 200 has *)
(* exactly one committed Payment row, each payment answered with an error  *)
(* has none, and so the ledger's amount_paid is the sum of the amounts     *)
(* answered 200.                                                           *)
(***************************************************************************)
RECURSIVE SumOk(_)
SumOk(S) ==
    IF S = {} THEN 0
    ELSE LET r == CHOOSE x \in S : TRUE
         IN  (IF req[r].code = 200 THEN req[r].body.amount ELSE 0) + SumOk(S \ {r})

C4_PaidIsSumOfSuccesses ==
    Quiet =>
      /\ \A r \in Reqs :
           req[r].op = "pay" =>
             Cardinality(RowsOf(r)) = (IF req[r].code = 200 THEN 1 ELSE 0)
      /\ \A l \in DOMAIN db.loans : Ledger(db, l).amount_paid = SumOk(PaysOn(l))

(***************************************************************************)
(* C5: with no request in progress, a loan is PAID_OFF exactly when its    *)
(* Payment rows sum to at least its total amount.                          *)
(***************************************************************************)
C5_PaidOffIffCovered ==
    (Quiet /\ NoError) =>
      \A l \in DOMAIN db.loans :
        (db.loans[l].status = "PAID_OFF")
          <=> (SumAmounts(PaysOf(db, l)) >= OriginalTotal(db.loans[l]))

(***************************************************************************)
(* C6: a payment whose insert or status update failed leaves no committed  *)
(* Payment row, and committed rows never show a loan whose payments cover  *)
(* the total while its status is still ACTIVE.                             *)
(***************************************************************************)
C6_Atomic ==
    /\ \A r \in Reqs :
         (req[r].op = "pay" /\ req[r].errs \cap {"insert", "update"} # {}
             /\ req[r].pc \in {"done", "hung"})
           => RowsOf(r) = {}
    /\ \A l \in DOMAIN db.loans :
         SumAmounts(PaysOf(db, l)) >= OriginalTotal(db.loans[l])
           => db.loans[l].status = "PAID_OFF"

(***************************************************************************)
(* C7: create-loan answers 201 and stores one ACTIVE loan for every body   *)
(* with a customer id, amount > 0, period >= 1 and rate >= 0 while storage *)
(* works, and answers 400 exactly for the other bodies.                    *)
(***************************************************************************)
LendAcceptable(b) ==
    /\ b.miss = {}
    /\ b.customer_id # ""
    /\ b.loan_amount > 0
    /\ b.loan_period_years >= 1
    /\ b.interest_rate_yearly >= 0

C7_LendValidation ==
    \A r \in Reqs :
      (req[r].op = "lend" /\ req[r].pc = "done") =>
        /\ (req[r].code = 400) <=> ~LendAcceptable(req[r].body)
        /\ (LendAcceptable(req[r].body) /\ req[r].errs = {}) =>
              /\ req[r].code = 201
              /\ \E c \in Conns :
                    r \in DOMAIN View(c).loans /\ View(c).loans[r].status = "ACTIVE"

(***************************************************************************)
(* C8: a create-loan whose customer placeholder insert failed is still     *)
(* answered 201 with its Loan row inserted.                                *)
(***************************************************************************)
C8_ProvisioningBestEffort ==
    \A r \in Reqs :
      (req[r].op = "lend" /\ req[r].pc = "done" /\ req[r].errs = {"inscust"})
        => req[r].code = 201

(***************************************************************************)
(* C9: a request answered 400 by validation made no storage call and left  *)
(* the store, its transactions and the pool as they were; every body the   *)
(* interface calls invalid is answered so.                                 *)
(***************************************************************************)
PayAcceptable(b) ==
    /\ b.miss = {}
    /\ b.payment_type \in {"EMI", "LUMP_SUM"}
    /\ b.amount > 0

Rejectable(q) ==
    \/ q.op = "lend" /\ ~LendAcceptable(q.body)
    \/ q.op = "pay" /\ ~PayAcceptable(q.body)

C9_ValidationTouchesNoStorage ==
    [][\A r \in Reqs :
          /\ (req[r].op = "none" /\ req'[r].op # "none"
                /\ (Rejectable(req'[r]) \/ req'[r].code = 400))
               => /\ req'[r].pc = "done" /\ req'[r].code = 400 /\ req'[r].calls = 0
                  /\ UNCHANGED <<db, conns, idle, clients>>
          /\ req[r].pc = "done" => req'[r] = req[r]]_vars

C9_Witness ==
    \E r \in Reqs :
      /\ req[r].op = "pay" /\ ~PayAcceptable(req[r].body)
      /\ req[r].pc = "done" /\ req[r].code = 400 /\ req[r].calls = 0
      /\ db.loans # << >>

(***************************************************************************)
(* C10: every storage failure of a payment request is answered 500, every  *)
(* payment request is answered, and none is answered 200 without its       *)
(* Payment row committed.                                                  *)
(***************************************************************************)
C10_FailuresSurfaced ==
    \A r \in Reqs :
      req[r].op = "pay" =>
        /\ req[r].pc # "hung"
        /\ (req[r].errs # {} /\ req[r].code # 0) => req[r].code = 500
        /\ (Quiet /\ req[r].code = 200) => RowsOf(r) # {}

(***************************************************************************)
(* Two loans of one customer, as the store holds them after two loans were  *)
(* created, and payment requests that name either of them.                  *)
(***************************************************************************)
TwoLoansDb ==
    LET b == LendBody("c1", 1000, 1, 20, {})
    IN  ApplyAll(EmptyDb, << [k |-> "cust", cust |-> "c1"],
                             [k |-> "loan", row |-> NewLoanRow(1, b)],
                             [k |-> "loan", row |-> NewLoanRow(2, b)] >>)

InitTwo ==
    /\ backend \in {"sqlite", "pg"}
    /\ up = TRUE
    /\ db = TwoLoansDb
    /\ conns = [c \in Conns |-> CleanConn]
    /\ idle = << >>
    /\ clients = {}
    /\ req = [r \in Reqs |-> NoReq]
    /\ faults = MaxFaults

PayBodiesTwo ==
    { PayBody(l, a, "EMI", {}) : l \in DOMAIN TwoLoansDb.loans, a \in {600, 1200} }

NextTwo ==
    \/ \E r \in PayReqs :
        \/ \E b \in PayBodiesTwo : LitePayStart(r, b)
        \/ LitePaySelLoan(r)
        \/ LitePaySelPays(r)
        \/ LitePayBegin(r)
        \/ LitePayInsert(r)
        \/ LitePayUpdate(r)
        \/ LitePayCommit(r)
        \/ LitePayRollback(r)
    \/ \E r \in PayReqs :
        \/ PgSend(r)
        \/ \E b \in PayBodiesTwo : PgPayStart(r, b)
        \/ PgPayBegin(r)
        \/ PgPaySelLoan(r)
        \/ PgPayRollbackEarly(r)
        \/ PgPaySelPays(r)
        \/ PgPayInsert(r)
        \/ PgPayUpdate(r)
        \/ PgPayCommit(r)
        \/ PgPayRollback(r)

SpecTwo == InitTwo /\ [][NextTwo]_vars

(***************************************************************************)
(* C11: payments against different loans are independent: when the only    *)
(* payment request on a loan is answered 200, that loan holds exactly the   *)
(* row of that payment and the status that payment alone leads to,          *)
(* whatever a request on another loan did meanwhile (here with no storage   *)
(* call failing at all).                                                    *)
(***************************************************************************)
C11_LoansIndependent ==
    (Quiet /\ NoError) =>
      \A l \in DOMAIN db.loans : \A r \in Reqs :
        (PaysOn(l) = {r} /\ req[r].code = 200
           /\ \E q \in Reqs \ {r} : req[q].op = "pay" /\ req[q].body.loan_id \in DOMAIN db.loans)
          => SerialMatches(l, <<r>>)

(***************************************************************************)
(* C12: the balance_amount a ledger read returns is max(0, total_amount -   *)
(* amount_paid) and so never negative, also when the payments exceed the    *)
(* total.                                                                   *)
(***************************************************************************)
C12_BalanceNeverNegative ==
    \A r \in Reqs :
      (req[r].op = "ledger" /\ req[r].code = 200) =>
        /\ req[r].out.balance_amount >= 0
        /\ req[r].out.balance_amount
             = Max(0, req[r].out.total_amount - req[r].out.amount_paid)

(***************************************************************************)
(* C13: the ledger read and the customer overview only read: no step of     *)
(* either changes a row or opens a transaction, the status a ledger         *)
(* returns is the stored one (no fix-up, also when the rows cover the       *)
(* total), and two ledger reads of one loan over the same rows return the   *)
(* same body.                                                               *)
(***************************************************************************)
LedgerDone(r) == req[r].op = "ledger" /\ req[r].pc = "done" /\ req[r].code = 200

InsertionOrder(l) ==
    LET rows == PaysOf(db, l) IN [i \in DOMAIN rows |-> rows[i].payment_id]

C14_InsertionOrder ==
    \A r \in Reqs :
      LedgerDone(r) =>
        [i \in DOMAIN req[r].out.transactions |-> req[r].out.transactions[i].transaction_id]
          = InsertionOrder(req[r].body.loan_id)

(***************************************************************************)
(* C15: once a Loan row is stored, no step changes any of its columns but   *)
(* status (principal_amount, total_amount, interest_rate,                   *)
(* loan_period_years, monthly_emi stay as created, and the row stays), and  *)
(* the committed Payment rows only grow at the end: none is changed or      *)
(* removed.                                                                 *)
(***************************************************************************)
Terms(loan) == [loan EXCEPT !.status = ""]

C15_LoanTermsImmutable ==
    [][/\ \A l \in DOMAIN db.loans :
            l \in DOMAIN db'.loans /\ Terms(db'.loans[l]) = Terms(db.loans[l])
       /\ Len(db'.pays) >= Len(db.pays)
       /\ SubSeq(db'.pays, 1, Len(db.pays)) = db.pays]_vars

C15_Witness ==
    \E l \in DOMAIN db.loans :
      /\ db.loans[l].status = "PAID_OFF"
      /\ Len(PaysOf(db, l)) > 1
      /\ db.loans[l].total_amount = OriginalTotal(db.loans[l])

(***************************************************************************)
(* C16: an overview whose storage calls all succeed is answered 404 exactly *)
(* when no Loan row carries the customer_id, also when a Customers row for  *)
(* that id exists; otherwise it is answered 200 with one entry per Loan row *)
(* of the customer and total_loans equal to their number.                   *)
(***************************************************************************)
LoanIdsOf(c) == {l \in DOMAIN db.loans : db.loans[l].customer_id = c}

OverviewDone(r) == req[r].op = "overview" /\ req[r].pc = "done" /\ req[r].errs = {}

C16_OverviewNotFound ==
    \A r \in Reqs :
      OverviewDone(r) =>
        LET ids == LoanIdsOf(req[r].body.customer_id) IN
        IF ids = {}
        THEN req[r].code = 404
        ELSE /\ req[r].code = 200
             /\ req[r].out.total_loans = Cardinality(ids)
             /\ Len(req[r].out.loans) = Cardinality(ids)
             /\ {req[r].out.loans[i].loan_id : i \in DOMAIN req[r].out.loans} = ids

C16_Witness ==
    \E r, q \in Reqs :
      /\ OverviewDone(r) /\ req[r].code = 404
      /\ req[r].body.customer_id \in db.cust
      /\ OverviewDone(q) /\ req[q].code = 200 /\ req[q].out.total_loans = 2

(***************************************************************************)
(* C17: every entry of an overview carries the total_amount, amount_paid,   *)
(* emis_left and status that a ledger read of that loan returns over the    *)
(* same rows.                                                               *)
(***************************************************************************)
Shared(x) ==
    [total_amount |-> x.total_amount, amount_paid |-> x.amount_paid,
     emis_left |-> x.emis_left, status |-> x.status]

Cents(units, hundredths) == units * 100 + hundredths

CalcLendBodies ==
    { LendBody("c1", Cents(12000, 0), 1, 10, {}),
      LendBody("c1", Cents(10000, 0), 2, 5, {}),
      LendBody("c1", Cents(10000, 0), 2, 0, {}) }

CalcPayBodies ==
    { PayBody(1, Cents(458, 33), t, {}) : t \in {"EMI", "LUMP_SUM"} }
      \cup { PayBody(1, Cents(1100, 0), "LUMP_SUM", {}), PayBody(0, Cents(1100, 0), "EMI", {}) }

CalcPayBodiesNow == {b \in CalcPayBodies : b.loan_id \in KnownLoans}

NextCalc ==
    \/ \E r \in LendReqs :
        \/ \E b \in CalcLendBodies : Alone(r) /\ LiteLendStart(r, b)
        \/ LiteLendSelCust(r)
        \/ LiteLendInsCust(r)
        \/ LiteLendInsLoan(r)
    \/ \E r \in PayReqs :
        \/ \E b \in CalcPayBodiesNow : Alone(r) /\ LitePayStart(r, b)
        \/ LitePaySelLoan(r)
        \/ LitePaySelPays(r)
        \/ LitePayBegin(r)
        \/ LitePayInsert(r)
        \/ LitePayUpdate(r)
        \/ LitePayCommit(r)
        \/ LitePayRollback(r)
    \/ \E r \in Reqs : PgSend(r)
    \/ \E r \in LendReqs :
        \/ \E b \in CalcLendBodies : Alone(r) /\ PgLendStart(r, b)
        \/ PgLendSelCust(r)
        \/ PgLendInsCust(r)
        \/ PgLendInsLoan(r)
    \/ \E r \in PayReqs :
        \/ \E b \in CalcPayBodiesNow : Alone(r) /\ PgPayStart(r, b)
        \/ PgPayBegin(r)
        \/ PgPaySelLoan(r)
        \/ PgPayRollbackEarly(r)
        \/ PgPaySelPays(r)
        \/ PgPayInsert(r)
        \/ PgPayUpdate(r)
        \/ PgPayCommit(r)
        \/ PgPayRollback(r)

SpecCalc == Init /\ [][NextCalc]_vars

(***************************************************************************)
(* C18: the reconciliation does not depend on the payment type: the         *)
(* remaining balance, the instalments left and the new status a payment     *)
(* handler has computed are those an EMI payment and a LUMP_SUM payment of  *)
(* the same amount give on the same loan and rows.                          *)
(***************************************************************************)
\* the handler of r has reconciled and not yet inserted its row
Reconciled(r) ==
    /\ req[r].op = "pay"
    /\ \/ backend = "sqlite" /\ req[r].pc \in {"begin", "insert"}
       \/ backend = "pg" /\ req[r].pc = "insert"

ReconciledAs(r, t) ==
    Reconcile(req[r].loan, PaysOf(db, req[r].body.loan_id), req[r].body.amount, t)

C18_TypeIndependent ==
    \A r \in Reqs :
      (Reconciled(r) /\ NoError) =>
        \A t \in {"EMI", "LUMP_SUM"} :
          ReconciledAs(r, t)
            = [rem |-> req[r].rem, newStatus |-> req[r].newStatus, emis |-> req[r].emis]

C18_Witness ==
    \E r \in Reqs :
      /\ Reconciled(r) /\ NoError
      /\ req[r].body.payment_type = "LUMP_SUM"
      /\ PaysOf(db, req[r].body.loan_id) # << >>
      /\ req[r].rem > 0 /\ req[r].emis > 0

(***************************************************************************)
(* C19: a create-loan request for principal P > 0, Y >= 1 years and rate    *)
(* R >= 0 whose storage calls succeed creates the loan with interest        *)
(* P*Y*R/100, total P + interest and instalment total/(Y*12): the 201       *)
(* returns these values and the Loans row stores them (P = 12000, Y = 1,    *)
(* R = 10: 1200, 13200, 1100).                                              *)
(***************************************************************************)
\* the fraction f is the number num/den
IsRatio(f, num, den) == f.d > 0 /\ f.n * den = num * f.d

Created(r) == req[r].op = "lend" /\ req[r].code = 201

LoanDetailsAsStated(r) ==
    LET P == req[r].body.loan_amount
        Y == req[r].body.loan_period_years
        R == req[r].body.interest_rate_yearly
        out == req[r].out
    IN  /\ out.total_interest * 100 = P * Y * R
        /\ out.total_amount_payable = P + out.total_interest
        /\ IsRatio(out.monthly_emi, out.total_amount_payable, Y * 12)
        /\ r \in DOMAIN db.loans
        /\ db.loans[r].principal_amount = P
        /\ db.loans[r].loan_period_years = Y
        /\ db.loans[r].interest_rate = R
        /\ db.loans[r].total_amount = out.total_amount_payable
        /\ db.loans[r].monthly_emi = out.monthly_emi
        /\ (P = Cents(12000, 0) /\ Y = 1 /\ R = 10) =>
             /\ out.total_interest = Cents(1200, 0)
             /\ out.total_amount_payable = Cents(13200, 0)
             /\ IsRatio(out.monthly_emi, Cents(1100, 0), 1)

C19_LoanDetails ==
    \A r \in Reqs :
      (/\ req[r].op = "lend" /\ req[r].pc = "done" /\ req[r].errs = {}
       /\ req[r].body.miss = {} /\ req[r].body.customer_id # ""
       /\ req[r].body.loan_amount > 0
       /\ req[r].body.loan_period_years >= 1
       /\ req[r].body.interest_rate_yearly >= 0)
        => (Created(r) /\ LoanDetailsAsStated(r))

\* the arithmetic alone, for the loans that are created
C19_CreatedLoanDetails == \A r \in Reqs : Created(r) => LoanDetailsAsStated(r)

(***************************************************************************)
(* C20: on a loan of 10000 over 2 years at 5% (total 11000, instalment      *)
(* 11000/24) the first payment, an EMI of 458.33, is answered with          *)
(* remaining balance 10541.67, 23 instalments left and status ACTIVE.       *)
(***************************************************************************)
FirstInstalment(r) ==
    /\ Reconciled(r) /\ NoError
    /\ req[r].loan.principal_amount = Cents(10000, 0)
    /\ req[r].loan.loan_period_years = 2
    /\ req[r].loan.interest_rate = 5
    /\ req[r].body.amount = Cents(458, 33)
    /\ req[r].body.payment_type = "EMI"
    /\ PaysOf(db, req[r].body.loan_id) = << >>

C20_FirstInstalment ==
    \A r \in Reqs :
      FirstInstalment(r) =>
        /\ req[r].rem = Cents(10541, 67)
        /\ req[r].emis = 23
        /\ req[r].newStatus = "ACTIVE"

\* what the handlers compute for it: 24 instalments left
C20_FirstInstalmentComputed ==
    \A r \in Reqs :
      FirstInstalment(r) =>
        /\ req[r].rem = Cents(10541, 67)
        /\ req[r].emis = 24
        /\ req[r].newStatus = "ACTIVE"

(***************************************************************************)
(* C21: payment requests on one loan exclude each other from the read of    *)
(* the Loan row to the commit, so no two of them compute their remaining    *)
(* balance from the same amountPaidTillDate (here for two requests that     *)
(* are both answered 200, with no storage call failing at all).             *)
(***************************************************************************)
\* the amountPaidTillDate a handler has read, recovered from the balance it
\* computed (a balance clamped to 0 does not tell it)
PaidTillDateSeen(r) == OriginalTotal(req[r].loan) - req[r].rem - req[r].body.amount

C21_NoSharedPaymentSum ==
    (Quiet /\ NoError) =>
      \A l \in DOMAIN db.loans : \A r, q \in PaysOn(l) :
        (r # q /\ req[r].code = 200 /\ req[q].code = 200
           /\ req[r].rem > 0 /\ req[q].rem > 0)
          => PaidTillDateSeen(r) # PaidTillDateSeen(q)

(***************************************************************************)
(* C22: at most one committed payment crosses the payoff threshold: the     *)
(* committed Payment rows of a loan without the one committed last sum to   *)
(* strictly less than the loan's total (here with no storage call failing   *)
(* at all).                                                                 *)
(***************************************************************************)
AllButLast(rows) == SubSeq(rows, 1, Len(rows) - 1)

C22_OneCrossingPayment ==
    NoError =>
      \A l \in DOMAIN db.loans :
        LET rows == PaysOf(db, l) IN
        rows # << >> => SumAmounts(AllButLast(rows)) < OriginalTotal(db.loans[l])

(* C23: referential integrity holds in every reachable state: every Loan row's
   customer_id has a Customer row and every Payment row's loan_id has a Loan
   row, whatever storage call fails (a failed placeholder insert included). *)
LoanHasCustomer(d, l) == d.loans[l].customer_id \in d.cust

PaymentHasLoan(d, i) == d.pays[i].loan_id \in DOMAIN d.loans

C23_ReferentialIntegrity ==
    /\ \A l \in DOMAIN db.loans : LoanHasCustomer(db, l)
    /\ \A i \in DOMAIN db.pays : PaymentHasLoan(db, i)

(***************************************************************************)
(* Payments and the read that follows them: two payment requests on the    *)
(* loans of TwoLoansDb, arriving at any time, and one ledger read that is   *)
(* sent when no request is in progress and after which no payment is sent. *)
(***************************************************************************)
AfterReqs == Reqs \ PayReqs

NoReadYet == \A q \in AfterReqs : req[q].op = "none"

NextAfter ==
    \/ \E r \in PayReqs :
        \/ \E b \in PayBodiesTwo : NoReadYet /\ LitePayStart(r, b)
        \/ LitePaySelLoan(r)
        \/ LitePaySelPays(r)
        \/ LitePayBegin(r)
        \/ LitePayInsert(r)
        \/ LitePayUpdate(r)
        \/ LitePayCommit(r)
        \/ LitePayRollback(r)
    \/ \E r \in PayReqs :
        \/ \E b \in PayBodiesTwo : NoReadYet /\ PgPayStart(r, b)
        \/ PgPayBegin(r)
        \/ PgPaySelLoan(r)
        \/ PgPayRollbackEarly(r)
        \/ PgPaySelPays(r)
        \/ PgPayInsert(r)
        \/ PgPayUpdate(r)
        \/ PgPayCommit(r)
        \/ PgPayRollback(r)
    \/ \E q \in AfterReqs :
        \/ \E l \in DOMAIN TwoLoansDb.loans : Alone(q) /\ LiteLedgerStart(q, l)
        \/ LiteLedgerSelLoan(q)
        \/ LiteLedgerSelPays(q)
        \/ \E l \in DOMAIN TwoLoansDb.loans : Alone(q) /\ PgLedgerStart(q, l)
        \/ PgLedgerSelLoan(q)
        \/ PgLedgerSelPays(q)
    \/ \E r \in Reqs : PgSend(r)

SpecAfter == InitTwo /\ [][NextAfter]_vars

(* C24: a successful payment's response agrees with the next read. When a
   ledger read of a loan was sent with no request in progress, no storage
   call has failed, and every payment request sent before it was answered
   200 on that loan with one and the same remaining_balance and emis_left
   (so that the response of whichever payment was answered last is known),
   the ledger reports emis_left equal to the response's emis_left,
   max(0, balance_amount) equal to its remaining_balance, and status
   PAID_OFF exactly when that remaining_balance is 0. *)
PaidOn(r, l) ==
    /\ req[r].op = "pay" /\ req[r].pc = "done" /\ req[r].code = 200
    /\ req[r].body.loan_id = l

AgreesWithRead(r, q) ==
    /\ req[q].out.emis_left = req[r].emis
    /\ Max(0, req[q].out.balance_amount) = req[r].rem
    /\ (req[q].out.status = "PAID_OFF") <=> (req[r].rem = 0)

C24_ResponseAgreesWithNextRead ==
    NoError =>
      \A q \in AfterReqs : \A r \in PayReqs :
        ( /\ LedgerDone(q)
          /\ PaidOn(r, req[q].body.loan_id)
          /\ \A o \in PayReqs :
               \/ req[o].op = "none"
               \/ /\ PaidOn(o, req[q].body.loan_id)
                  /\ req[o].rem = req[r].rem /\ req[o].emis = req[r].emis )
          => AgreesWithRead(r, q)

====
